---------------------------- MODULE Spec2Model ----------------------------
(***************************************************************************)
(* A model of claude-session-logging:                                      *)
(*   claude-log-clean.py   char_to_html, screen_to_html, clean_log, main   *)
(*   claude-log-server.py  convert_log_to_html, view_log, html_cache       *)
(*                                                                         *)
(* Six specifications share the module:                                    *)
(*   SpecChar    char_to_html applied to one pyte Char                     *)
(*   SpecRow     the body of screen_to_html's row loop applied to one row  *)
(*   SpecRender  the two renderings of clean_log applied to a whole grid   *)
(*   Spec        the command-line program, main and clean_log              *)
(*   SpecServer     view requests running concurrently with file changes   *)
(*   SpecServerSeq  the same server answering one request at a time        *)
(***************************************************************************)
EXTENDS Integers, Sequences, FiniteSets, TLC

VARIABLES
    \* ---- SpecChar: one call of char_to_html
    char,           \* the argument, a pyte Char
    char_html,      \* the value returned, NoValue before the call
    \* ---- SpecRow: one iteration of screen_to_html's loop over the rows
    line,           \* screen.buffer[y]
    row,            \* the iteration's locals last_char, line_html, line_str
    \* ---- Spec and SpecRender: the command-line program
    argv,           \* sys.argv without the script name
    pc,             \* where main / clean_log stands
    input_file, output_file, html,
    data,           \* the bytes read from input_file, header still on
    fed,            \* what was fed to the terminal emulator
    screen,         \* the pyte screen after playback
    output,         \* clean_log's output string
    stdout, stderr, \* what was printed
    written,        \* the content of output_file, NoValue when not written
    raised,         \* the exception that left main, "none" when none
    exit_status,    \* the process's exit status, -1 while running
    \* ---- SpecServer: the Flask application and the log directory
    now,            \* the file system's clock
    log,            \* the log file: exists, mtime, ver (its content's version)
    pre,            \* the pre-converted .html file: exists, mtime, src
    html_cache,     \* the module-level dict
    req             \* per request thread: its position and locals

charVars   == <<char, char_html>>
rowVars    == <<line, row>>
cleanVars  == <<argv, pc, input_file, output_file, html, data, fed, screen,
                output, stdout, stderr, written, raised, exit_status>>
serverVars == <<now, log, pre, html_cache, req>>
vars       == <<charVars, rowVars, cleanVars, serverVars>>

NoValue == [none |-> TRUE]

(***************************************************************************)
(* Values.  A colour of a pyte Char is a Python value: a str, an int, or   *)
(* something else (None, a tuple).  One record shape holds all three.      *)
(***************************************************************************)
Str(s)   == [kind |-> "str", name |-> s, num |-> 0]
Int_(n)  == [kind |-> "int", name |-> "", num |-> n]
NoneVal  == [kind |-> "other", name |-> "", num |-> 0]
TupleVal == [kind |-> "other", name |-> "", num |-> 1]

\* Python truthiness: '' and 0 and None are falsy.
Truthy(v) == IF v.kind = "str" THEN v.name # "" ELSE v.num # 0

Char(d, f, b, bo) == [data |-> d, fg |-> f, bg |-> b, bold |-> bo]

\* pyte's default character: a space, default colours, not bold.
DefaultChar == Char(" ", Str("default"), Str("default"), FALSE)

\* The characters str.rstrip() and str.strip() remove; "nbsp" stands for
\* U+00A0, a whitespace character a terminal cell can hold.
Whitespace == {" ", "nbsp", "\n"}

COLORS ==
    [n \in {"black", "red", "green", "brown", "yellow", "blue", "magenta",
            "cyan", "white", "default", "brightblack", "brightred",
            "brightgreen", "brightyellow", "brightblue", "brightmagenta",
            "brightcyan", "brightwhite"} |->
        CASE n = "black"         -> "#000000"
          [] n = "red"           -> "#cc0000"
          [] n = "green"         -> "#4e9a06"
          [] n = "brown"         -> "#c4a000"
          [] n = "yellow"        -> "#c4a000"
          [] n = "blue"          -> "#3465a4"
          [] n = "magenta"       -> "#75507b"
          [] n = "cyan"          -> "#06989a"
          [] n = "white"         -> "#d3d7cf"
          [] n = "default"       -> "#d3d7cf"
          [] n = "brightblack"   -> "#555753"
          [] n = "brightred"     -> "#ef2929"
          [] n = "brightgreen"   -> "#8ae234"
          [] n = "brightyellow"  -> "#fce94f"
          [] n = "brightblue"    -> "#729fcf"
          [] n = "brightmagenta" -> "#ad7fa8"
          [] n = "brightcyan"    -> "#34e2e2"
          [] n = "brightwhite"   -> "#eeeeec"]

\* dict.get(key, default)
COLORS_get(key, default) ==
    IF key \in DOMAIN COLORS THEN COLORS[key] ELSE default

HexDigit(d) ==
    <<"0", "1", "2", "3", "4", "5", "6", "7", "8", "9",
      "a", "b", "c", "d", "e", "f">>[d + 1]

RECURSIVE HexStr(_)
HexStr(n) ==
    IF n < 16 THEN HexDigit(n)
    ELSE HexStr(n \div 16) \o HexDigit(n % 16)

RECURSIVE ZeroPad(_, _)
ZeroPad(s, width) == IF Len(s) >= width THEN s ELSE ZeroPad("0" \o s, width)

\* format(n, '06x'): sign-aware zero padding to six characters.
Format06x(n) ==
    IF n < 0 THEN "-" \o ZeroPad(HexStr(-n), 5) ELSE ZeroPad(HexStr(n), 6)

\* Lines 43-47: the hex string of a foreground that is truthy and not 'default'.
FgColor(fg) ==
    IF fg.kind = "str"
    THEN COLORS_get(fg.name, COLORS_get("bright" \o fg.name, "#d3d7cf"))
    ELSE IF fg.kind = "int" THEN "#" \o Format06x(fg.num) ELSE "#d3d7cf"

\* A background renderer that drops the integer branch.
BgColorNoInt(bg) ==
    IF bg.kind = "str"
    THEN COLORS_get(bg.name, COLORS_get("bright" \o bg.name, "#000000"))
    ELSE "#000000"

\* Lines 53-56: the hex string of a background that is truthy and not 'default'.
BgColor(bg) ==
    IF bg.kind = "str"
    THEN COLORS_get(bg.name, COLORS_get("bright" \o bg.name, "#000000"))
    ELSE IF bg.kind = "int" THEN "#" \o Format06x(bg.num) ELSE "#000000"

Style(p, v) == [prop |-> p, val |-> v]

\* Lines 38-61: the list `styles`.
Styles(c) ==
    (IF Truthy(c.fg) /\ c.fg # Str("default")
        THEN <<Style("color", FgColor(c.fg))>> ELSE <<>>)
    \o (IF Truthy(c.bg) /\ c.bg # Str("default")
        THEN <<Style("background-color", BgColor(c.bg))>> ELSE <<>>)
    \o (IF c.bold THEN <<Style("font-weight", "bold")>> ELSE <<>>)

\* Lines 64-70.
Escape(d) ==
    CASE d = "<" -> "&lt;"
      [] d = ">" -> "&gt;"
      [] d = "&" -> "&amp;"
      [] OTHER   -> d

\* A piece of markup: <span style="...">text</span> when span, else text.
Piece(isSpan, st, t) == [span |-> isSpan, styles |-> st, text |-> t]

\* A char_to_html that wraps every cell it does not return early for.
char_to_html_always_span(c) ==
    IF c.data = " " /\ c.fg = Str("default") /\ c.bg = Str("default")
    THEN Piece(FALSE, <<>>, " ")
    ELSE Piece(TRUE, Styles(c), Escape(c.data))

\* Lines 33-74.
char_to_html(c) ==
    IF c.data = " " /\ c.fg = Str("default") /\ c.bg = Str("default")
    THEN Piece(FALSE, <<>>, " ")
    ELSE IF Styles(c) # <<>>
         THEN Piece(TRUE, Styles(c), Escape(c.data))
         ELSE Piece(FALSE, <<>>, Escape(c.data))


(***************************************************************************)
(* Markup strings are sequences of pieces.  str.rstrip() removes the       *)
(* trailing whitespace characters of the string: the trailing pieces that  *)
(* are a bare whitespace character (a span ends in "</span>", an entity in *)
(* ";").                                                                   *)
(***************************************************************************)
IsSpacePiece(p) == ~p.span /\ p.text \in Whitespace

\* An rstrip that removes nothing.
RStripNothing(s) == s

RECURSIVE RStrip(_)
RStrip(s) ==
    IF s # <<>> /\ IsSpacePiece(s[Len(s)])
    THEN RStrip(SubSeq(s, 1, Len(s) - 1))
    ELSE s

\* str.strip() is empty: every character is whitespace.
IsBlankStr(s) == \A i \in 1..Len(s) : IsSpacePiece(s[i])

NL == Piece(FALSE, <<>>, "\n")

\* '\n'.join(lines)
RECURSIVE Join(_)
Join(ls) ==
    IF ls = <<>> THEN <<>>
    ELSE IF Len(ls) = 1 THEN ls[1]
    ELSE ls[1] \o <<NL>> \o Join(Tail(ls))

\* Lines 101-102 and 166-167: while lines and not lines[-1].strip(): pop.
RECURSIVE DropTrailingBlank(_)
DropTrailingBlank(ls) ==
    IF ls # <<>> /\ IsBlankStr(ls[Len(ls)])
    THEN DropTrailingBlank(SubSeq(ls, 1, Len(ls) - 1))
    ELSE ls

(***************************************************************************)
(* screen_to_html.  Columns and rows are numbered from 0 in the code and   *)
(* the sequences from 1 here: line[x] of the code is ln[x + 1].            *)
(***************************************************************************)
\* A scan that also counts a cell whose foreground is not the default.
CountsAsCharWithFg(c) ==
    c.data # " " \/ c.bg # Str("default") \/ c.fg # Str("default")

\* Line 88: the test that makes column x the last non-empty one so far.
CountsAsChar(c) == c.data # " " \/ c.bg # Str("default")

\* Lines 86-89: last_char after the scan of columns x..screen.columns-1.
RECURSIVE ScanLastChar(_, _, _)
ScanLastChar(ln, x, last) ==
    IF x >= Len(ln) THEN last
    ELSE ScanLastChar(ln, x + 1, IF CountsAsChar(ln[x + 1]) THEN x ELSE last)

\* Lines 82-96: one iteration of the loop over the rows, its locals.
RowLocals(ln) ==
    LET last_char == ScanLastChar(ln, 0, 0)
        line_html == [i \in 1..(last_char + 1) |-> char_to_html(ln[i])]
    IN  [last_char |-> last_char,
         line_html |-> line_html,
         line_str  |-> RStrip(line_html)]

\* A filter that keeps every row.
KeepLineAlways(line_str) == TRUE

\* Lines 97 and 164: `if line_str:` / `if stripped:`.
KeepLine(line_str) == line_str # <<>>

\* Lines 79-98: the list `lines` after the loop over rows y..screen.lines-1.
RECURSIVE HtmlLines(_, _, _)
HtmlLines(scr, y, acc) ==
    IF y >= Len(scr) THEN acc
    ELSE LET line_str == RowLocals(scr[y + 1]).line_str
         IN  HtmlLines(scr, y + 1,
                       IF KeepLine(line_str) THEN Append(acc, line_str) ELSE acc)

\* Lines 77-104.
screen_to_html(scr) == Join(DropTrailingBlank(HtmlLines(scr, 0, <<>>)))

(***************************************************************************)
(* clean_log's plain text.  screen.display gives one string per row, the   *)
(* row's characters side by side.                                          *)
(***************************************************************************)
display(scr) ==
    [y \in 1..Len(scr) |-> [x \in 1..Len(scr[y]) |-> Piece(FALSE, <<>>, scr[y][x].data)]]

\* Lines 161-165.
RECURSIVE TextLines(_, _, _)
TextLines(disp, y, acc) ==
    IF y >= Len(disp) THEN acc
    ELSE LET stripped == RStrip(disp[y + 1])
         IN  TextLines(disp, y + 1,
                       IF KeepLine(stripped) THEN Append(acc, stripped) ELSE acc)

\* Lines 160-168.
plain_text(scr) == Join(DropTrailingBlank(TextLines(display(scr), 0, <<>>)))

\* Lines 133-158: the fixed document around the rendered fragment.
DocHead == Piece(FALSE, <<>>, "<!DOCTYPE html>...<body>\n<pre>")
DocTail == Piece(FALSE, <<>>, "</pre>\n</body>\n</html>")
html_document(content) == <<DocHead>> \o content \o <<DocTail>>


(***************************************************************************)
(* Bounds and the inputs drawn within them.                                *)
(***************************************************************************)
Columns == 2        \* screen.columns of the grids drawn
Lines   == 3        \* screen.lines of the grids drawn
MaxArgs == 2        \* command-line arguments after the script name

Red == Str("red")

\* Characters char_to_html is applied to.
Glyphs == {" ", "A", "<", ">", "&", "nbsp"}
ColorValues ==
    {Str("default"), Red, Str("yellow"), Str("brown"), Str("brightblack"),
     Str("brightbrown"), Str("ff8700"), Str(""),
     Int_(0), Int_(255), Int_(16711680), Int_(16777216), Int_(-1),
     NoneVal, TupleVal}
Chars == {Char(d, f, b, bo) : d \in Glyphs, f \in ColorValues,
                              b \in ColorValues, bo \in BOOLEAN}

\* Cells of the rows the row loop is applied to.
RowCells ==
    {DefaultChar,
     Char("A", Str("default"), Str("default"), FALSE),
     Char("A", Red, Str("default"), TRUE),
     Char("<", Str("default"), Str("default"), FALSE),
     Char("nbsp", Str("default"), Str("default"), FALSE),
     Char("nbsp", Str("default"), Red, FALSE),
     Char(" ", Red, Str("default"), FALSE),
     Char(" ", Str("default"), Red, FALSE),
     Char(" ", Str("default"), Str("default"), TRUE),
     Char(" ", Str("brightbrown"), Str("default"), TRUE)}
Rows == [1..Columns -> RowCells]

\* Cells of the grids the two renderings are applied to.
GridCells ==
    {DefaultChar,
     Char("A", Str("default"), Str("default"), FALSE),
     Char(" ", Red, Str("default"), FALSE)}
Grids == [1..Lines -> [1..Columns -> GridCells]]

CharIdle  == char = DefaultChar /\ char_html = NoValue
RowIdle   == line = <<>> /\ row = NoValue
CleanIdle ==
    /\ argv = <<>> /\ pc = "off" /\ input_file = "" /\ output_file = ""
    /\ html = FALSE /\ data = <<>> /\ fed = <<>> /\ screen = <<>>
    /\ output = <<>> /\ stdout = <<>> /\ stderr = <<>>
    /\ written = [done |-> FALSE, content |-> <<>>]
    /\ raised = "none" /\ exit_status = -1

(***************************************************************************)
(* SpecChar: char_to_html applied to one character.                        *)
(***************************************************************************)
CharToHtml ==
    /\ char_html = NoValue
    /\ char_html' = char_to_html(char)
    /\ UNCHANGED <<char, rowVars, cleanVars, serverVars>>

(***************************************************************************)
(* SpecRow: one iteration of screen_to_html's loop over the rows.          *)
(***************************************************************************)
ScreenToHtmlRow ==
    /\ row = NoValue
    /\ row' = RowLocals(line)
    /\ UNCHANGED <<line, charVars, cleanVars, serverVars>>

(***************************************************************************)
(* The command-line program.  output_file = "" stands for None: the code   *)
(* only tests output_file for truth, and '' is as false as None.           *)
(***************************************************************************)
Args == {"in.log", "out.txt", "out.html", "--html"}

RECURSIVE SeqsUpTo(_, _)
SeqsUpTo(S, n) ==
    IF n = 0 THEN {<<>>}
    ELSE LET shorter == SeqsUpTo(S, n - 1)
         IN  shorter \cup {Append(q, a) : q \in shorter, a \in S}

\* str.endswith('.html') on the names drawn.
EndsWithHtml(name) == name \in {"out.html", "x.html", ".html"}

\* Lines 188-195: html and output_file after the loop over sys.argv[2:].
RECURSIVE ParseRest(_, _)
ParseRest(rest, acc) ==
    IF rest = <<>> THEN acc
    ELSE ParseRest(Tail(rest),
                   IF Head(rest) = "--html"
                   THEN [acc EXCEPT !.html = TRUE]
                   ELSE [acc EXCEPT !.output_file = Head(rest)])

\* Line 185: sys.exit(1).
UsageStatus == 1

\* What print() adds to a stream.
Printed(w, c) == [what |-> w, content |-> c]

\* Lines 181-185.
MainUsage ==
    /\ pc = "main"
    /\ Len(argv) < 1
    /\ stdout' = <<Printed("Usage: claude-log-clean.py <logfile> [output] [--html]", <<>>)>>
    /\ raised' = "SystemExit"
    /\ exit_status' = UsageStatus
    /\ pc' = "exited"
    /\ UNCHANGED <<argv, input_file, output_file, html, data, fed, screen,
                   output, stderr, written, charVars, rowVars, serverVars>>

\* Lines 187-201, up to the call of clean_log.
MainParse ==
    /\ pc = "main"
    /\ Len(argv) >= 1
    /\ LET parsed == ParseRest(Tail(argv), [html |-> FALSE, output_file |-> ""])
       IN  /\ input_file' = argv[1]
           /\ output_file' = parsed.output_file
           /\ html' = (parsed.html \/
                       (parsed.output_file # "" /\ EndsWithHtml(parsed.output_file)))
    /\ pc' = "read"
    /\ UNCHANGED <<argv, data, fed, screen, output, stdout, stderr, written,
                   raised, exit_status, charVars, rowVars, serverVars>>

\* Captures the input file may hold: bytes, "\n" the newline.
Captures == {<<>>, <<"S">>, <<"S", "\n">>, <<"S", "\n", "H">>, <<"\n", "H", "\n">>}

\* Lines 111-112: open and read; an OSError leaves main uncaught, and the
\* interpreter ends with status 1.
CleanLogRead ==
    /\ pc = "read"
    /\ \/ /\ \E d \in Captures : data' = d
          /\ pc' = "feed"
          /\ UNCHANGED <<raised, exit_status>>
       \/ /\ raised' = "OSError"
          /\ exit_status' = 1
          /\ pc' = "exited"
          /\ UNCHANGED data
    /\ UNCHANGED <<argv, input_file, output_file, html, fed, screen, output,
                   stdout, stderr, written, charVars, rowVars, serverVars>>

\* data.index(b'\n'), 0 when there is none (the code's ValueError).
RECURSIVE IndexNL(_, _)
IndexNL(d, i) ==
    IF i > Len(d) THEN 0 ELSE IF d[i] = "\n" THEN i ELSE IndexNL(d, i + 1)

\* Lines 119-123.
SkipHeader(d) ==
    IF IndexNL(d, 1) = 0 THEN d ELSE SubSeq(d, IndexNL(d, 1) + 1, Len(d))

BlankScreen == [y \in 1..Lines |-> [x \in 1..Columns |-> DefaultChar]]
TextScreen  ==
    [y \in 1..Lines |-> [x \in 1..Columns |->
        IF y = 1 THEN Char("A", Red, Str("default"), TRUE) ELSE DefaultChar]]
GapScreen   ==
    [y \in 1..Lines |-> [x \in 1..Columns |->
        IF y \in {1, Lines} /\ x = 1
        THEN Char("A", Str("default"), Str("default"), FALSE) ELSE DefaultChar]]

\* The screens playback may leave: pyte decides, and nothing was drawn when
\* nothing was fed.
ScreensAfter(bytes) ==
    IF bytes = <<>> THEN {BlankScreen} ELSE {BlankScreen, TextScreen, GapScreen}

\* A playback with no handler around it.
PlaybackUncaught == FALSE

\* Lines 126-128: stream.feed runs inside try / except Exception.
PlaybackCaught == TRUE

\* Lines 115-129: the emulator is created, the header skipped, the rest fed;
\* an exception of the playback is caught and reported on stderr.
CleanLogFeed ==
    /\ pc = "feed"
    /\ fed' = SkipHeader(data)
    /\ \E scr \in ScreensAfter(SkipHeader(data)) : screen' = scr
    /\ \/ /\ UNCHANGED <<stderr, raised, exit_status>>
          /\ pc' = "render"
       \/ /\ SkipHeader(data) # <<>>
          /\ IF PlaybackCaught
             THEN /\ stderr' = Append(stderr, Printed("Warning", <<>>))
                  /\ raised' = raised
                  /\ exit_status' = exit_status
                  /\ pc' = "render"
             ELSE /\ stderr' = Append(stderr, Printed("Traceback", <<>>))
                  /\ raised' = "Exception"
                  /\ exit_status' = 1
                  /\ pc' = "exited"
    /\ UNCHANGED <<argv, input_file, output_file, html, data, output, stdout,
                   written, charVars, rowVars, serverVars>>

\* Lines 131-168.
CleanLogRender ==
    /\ pc = "render"
    /\ output' = IF html THEN html_document(screen_to_html(screen))
                         ELSE plain_text(screen)
    /\ pc' = "write"
    /\ UNCHANGED <<argv, input_file, output_file, html, data, fed, screen,
                   stdout, stderr, written, raised, exit_status,
                   charVars, rowVars, serverVars>>

\* Lines 170-177: to the file when one was named, else to standard output;
\* an error of either leaves main uncaught.
CleanLogWrite ==
    /\ pc = "write"
    /\ \/ /\ output_file # ""
          /\ written' = [done |-> TRUE, content |-> output]
          /\ stdout' = Append(stdout, Printed("Written to: " \o output_file, <<>>))
          /\ pc' = "return"
          /\ UNCHANGED <<raised, exit_status>>
       \/ /\ output_file = ""
          /\ stdout' = Append(stdout, Printed("", output))
          /\ pc' = "return"
          /\ UNCHANGED <<written, raised, exit_status>>
       \/ /\ raised' = "OSError"
          /\ exit_status' = 1
          /\ pc' = "exited"
          /\ UNCHANGED <<written, stdout>>
    /\ UNCHANGED <<argv, input_file, output_file, html, data, fed, screen,
                   output, stderr, charVars, rowVars, serverVars>>

\* main returns and the interpreter exits.
MainReturn ==
    /\ pc = "return"
    /\ exit_status' = 0
    /\ pc' = "exited"
    /\ UNCHANGED <<argv, input_file, output_file, html, data, fed, screen,
                   output, stdout, stderr, written, raised,
                   charVars, rowVars, serverVars>>


(***************************************************************************)
(* The specifications of claude-log-clean.py.                              *)
(***************************************************************************)
ServerIdle ==
    /\ now = 0
    /\ log = [exists |-> FALSE, mtime |-> 0, ver |-> 0]
    /\ pre = [exists |-> FALSE, mtime |-> 0, src |-> 0]
    /\ html_cache = <<>>
    /\ req = <<>>

InitChar == char \in Chars /\ char_html = NoValue
            /\ RowIdle /\ CleanIdle /\ ServerIdle
NextChar == CharToHtml
SpecChar == InitChar /\ [][NextChar]_vars

InitRow == line \in Rows /\ row = NoValue
           /\ CharIdle /\ CleanIdle /\ ServerIdle
NextRow == ScreenToHtmlRow
SpecRow == InitRow /\ [][NextRow]_vars

\* clean_log at line 131, playback done: any grid, either mode.
InitRender ==
    /\ argv = <<>> /\ pc = "render" /\ input_file = "" /\ output_file = ""
    /\ html \in BOOLEAN /\ data = <<>> /\ fed = <<>>
    /\ screen \in Grids
    /\ output = <<>> /\ stdout = <<>> /\ stderr = <<>>
    /\ written = [done |-> FALSE, content |-> <<>>]
    /\ raised = "none" /\ exit_status = -1
    /\ CharIdle /\ RowIdle /\ ServerIdle
NextRender == CleanLogRender
SpecRender == InitRender /\ [][NextRender]_vars

Init ==
    /\ argv \in SeqsUpTo(Args, MaxArgs) /\ pc = "main"
    /\ input_file = "" /\ output_file = ""
    /\ html = FALSE /\ data = <<>> /\ fed = <<>> /\ screen = <<>>
    /\ output = <<>> /\ stdout = <<>> /\ stderr = <<>>
    /\ written = [done |-> FALSE, content |-> <<>>]
    /\ raised = "none" /\ exit_status = -1
    /\ CharIdle /\ RowIdle /\ ServerIdle
Next ==
    \/ MainUsage
    \/ MainParse
    \/ CleanLogRead
    \/ CleanLogFeed
    \/ CleanLogRender
    \/ CleanLogWrite
    \/ MainReturn
Spec == Init /\ [][Next]_vars


(***************************************************************************)
(* Properties of claude-log-clean.py.                                      *)
(***************************************************************************)
Max(S) == CHOOSE m \in S : \A n \in S : n <= m

HasStyle(p, prop) == \E i \in 1..Len(p.styles) : p.styles[i].prop = prop
StyleVal(p, prop) ==
    p.styles[CHOOSE i \in 1..Len(p.styles) : p.styles[i].prop = prop].val

IsBlankDefault(c) ==
    c.data = " " /\ c.fg = Str("default") /\ c.bg = Str("default")

\* The lines of a joined string; the empty string has none.
RECURSIVE Split(_, _, _)
Split(s, cur, acc) ==
    IF s = <<>> THEN Append(acc, cur)
    ELSE IF Head(s) = NL THEN Split(Tail(s), <<>>, Append(acc, cur))
    ELSE Split(Tail(s), Append(cur, Head(s)), acc)
LinesOf(s) == IF s = <<>> THEN <<>> ELSE Split(s, <<>>, <<>>)

\* The fragment screen_to_html returned, inside the document.
Content == SubSeq(output, 2, Len(output) - 1)

HasGlyph(ln)     == \E x \in 1..Len(ln) : ln[x].data \notin Whitespace
IsDefaultRow(ln) == \A x \in 1..Len(ln) : ln[x] = DefaultChar
NoEmptyLine(ls)  == \A k \in 1..Len(ls) : ls[k] # <<>>

\* C2 as stated: a fully blank row between two non-blank rows is kept by the
\* HTML rendering as an empty line between the two rendered rows.
C2_InteriorBlankKept ==
    (pc = "write" /\ html) =>
        \A y \in 1..Len(screen) :
            (/\ IsDefaultRow(screen[y])
             /\ \E a \in 1..(y - 1) : HasGlyph(screen[a])
             /\ \E b \in (y + 1)..Len(screen) : HasGlyph(screen[b]))
            => \E k \in 2..(Len(LinesOf(Content)) - 1) : LinesOf(Content)[k] = <<>>

\* C2 amended: the HTML rendering holds no empty line at all: a row that is
\* empty after trimming is dropped wherever it lies, so the fragment has at
\* most one line per row that is not fully blank and at least one line per
\* row that holds a visible glyph.
C2_NoBlankLineInHtml ==
    (pc = "write" /\ html) =>
        /\ NoEmptyLine(LinesOf(Content))
        /\ Len(LinesOf(Content))
             <= Cardinality({y \in 1..Len(screen) : ~IsDefaultRow(screen[y])})
        /\ Len(LinesOf(Content))
             >= Cardinality({y \in 1..Len(screen) : HasGlyph(screen[y])})

C2_Witness ==
    /\ pc = "write" /\ html
    /\ HasGlyph(screen[1]) /\ IsDefaultRow(screen[2]) /\ HasGlyph(screen[Len(screen)])
    /\ Len(LinesOf(Content)) = Len(screen) - 1

\* A row's text without its trailing whitespace, said without recursion.
Trimmed(ln) ==
    LET keep == {x \in 1..Len(ln) : ln[x].data \notin Whitespace}
    IN  IF keep = {} THEN <<>>
        ELSE [x \in 1..Max(keep) |-> Piece(FALSE, <<>>, ln[x].data)]
IsNonEmpty(str) == str # <<>>

\* C3: the plain text is the rows in order, each without its trailing
\* whitespace, the rows that are then empty removed, one newline between
\* two kept rows: no empty line, no line ending in whitespace.
C3_PlainTextRows ==
    (pc = "write" /\ ~html) =>
        /\ LinesOf(output)
             = SelectSeq([y \in 1..Len(screen) |-> Trimmed(screen[y])], IsNonEmpty)
        /\ NoEmptyLine(LinesOf(output))
        /\ (output # <<>> => output[1] # NL /\ output[Len(output)] # NL)
        /\ \A k \in 1..(Len(output) - 1) : ~(output[k] = NL /\ output[k + 1] = NL)

C3_Witness ==
    /\ pc = "write" /\ ~html
    /\ IsDefaultRow(screen[1]) /\ HasGlyph(screen[2]) /\ ~HasGlyph(screen[Len(screen)])
    /\ Len(LinesOf(output)) = 1

\* The columns (from 0) of the cells that differ from the blank default cell.
DiffersFromBlank(ln) == {x \in 0..(Len(ln) - 1) : ~IsBlankDefault(ln[x + 1])}
\* The columns (from 0) whose glyph is not a space or whose background is set.
GlyphOrBackground(ln) ==
    {x \in 0..(Len(ln) - 1) :
        ln[x + 1].data # " " \/ ln[x + 1].bg # Str("default")}

\* C4 as stated: a row's output is the cells at columns 0..L, L the last
\* column whose cell differs from the blank default cell, and is empty when
\* the row has no such cell.
C4_CellsUpToLastDiffering ==
    row # NoValue =>
        IF DiffersFromBlank(line) = {} THEN row.line_str = <<>>
        ELSE row.line_str
               = [i \in 1..(Max(DiffersFromBlank(line)) + 1) |-> char_to_html(line[i])]

\* C4 amended: the cells emitted are those at columns 0..L, L the last column
\* whose glyph is not a space or whose background is not the default (0 when
\* there is none): a foreground alone does not count.  The row's output is
\* that markup without its trailing whitespace.
C4_CellsUpToLastGlyphOrBackground ==
    row # NoValue =>
        LET L == IF GlyphOrBackground(line) = {} THEN 0
                 ELSE Max(GlyphOrBackground(line))
            n == Len(row.line_str)
        IN  /\ row.last_char = L
            /\ Len(row.line_html) = L + 1
            /\ \A i \in 1..(L + 1) : row.line_html[i] = char_to_html(line[i])
            /\ n <= L + 1
            /\ row.line_str = SubSeq(row.line_html, 1, n)
            /\ (n > 0 => ~IsSpacePiece(row.line_html[n]))
            /\ \A i \in (n + 1)..(L + 1) : IsSpacePiece(row.line_html[i])

C4_Witness ==
    /\ row # NoValue
    /\ line[1] = DefaultChar
    /\ line[Len(line)] = Char(" ", Red, Str("default"), FALSE)
    /\ row.line_str = <<>>

\* C5 as stated: a space with default colours is a bare space, every other
\* cell is wrapped in a styled element that carries color exactly when the
\* foreground is not the default, background-color exactly when the
\* background is not the default, font-weight exactly when bold is set.
C5_EveryOtherCellWrapped ==
    char_html # NoValue =>
        IF IsBlankDefault(char) THEN char_html = Piece(FALSE, <<>>, " ")
        ELSE /\ char_html.span
             /\ HasStyle(char_html, "color") <=> char.fg # Str("default")
             /\ HasStyle(char_html, "background-color") <=> char.bg # Str("default")
             /\ HasStyle(char_html, "font-weight") <=> char.bold

\* C5 amended: a space with default colours is a bare space; any other cell
\* carries color exactly when its foreground is truthy and not the default,
\* background-color likewise, font-weight exactly when bold is set, and is
\* wrapped in the styled element exactly when it carries at least one of the
\* three: with none, the escaped glyph is emitted bare.
C5_WrappedIffStyled ==
    char_html # NoValue =>
        IF IsBlankDefault(char) THEN char_html = Piece(FALSE, <<>>, " ")
        ELSE /\ HasStyle(char_html, "color")
                  <=> (Truthy(char.fg) /\ char.fg # Str("default"))
             /\ HasStyle(char_html, "background-color")
                  <=> (Truthy(char.bg) /\ char.bg # Str("default"))
             /\ HasStyle(char_html, "font-weight") <=> char.bold
             /\ char_html.span
                  <=> \/ Truthy(char.fg) /\ char.fg # Str("default")
                      \/ Truthy(char.bg) /\ char.bg # Str("default")
                      \/ char.bold
             /\ char_html.text = Escape(char.data)
             /\ Len(char_html.styles) <= 3

C5_Witness ==
    /\ char_html # NoValue
    /\ char = Char("A", Str("default"), Str("default"), FALSE)
    /\ char_html = Piece(FALSE, <<>>, "A")

IsRecognized(v) ==
    \/ v.kind = "int"
    \/ v.kind = "str" /\ (v.name \in DOMAIN COLORS
                          \/ ("bright" \o v.name) \in DOMAIN COLORS)

\* C6 as stated: a colour value gives the same hex string as foreground and
\* as background.
C6_SameHexInBothRoles ==
    (/\ char_html # NoValue
     /\ char.fg = char.bg
     /\ HasStyle(char_html, "color")
     /\ HasStyle(char_html, "background-color"))
    => StyleVal(char_html, "color") = StyleVal(char_html, "background-color")

\* C6 amended: a recognized name and an integer give the same hex string as
\* foreground and as background; any other value (an unrecognized name, a
\* value that is neither str nor int) falls back to #d3d7cf as foreground
\* and to #000000 as background.
C6_SameHexWhenRecognized ==
    (/\ char_html # NoValue
     /\ char.fg = char.bg
     /\ HasStyle(char_html, "color")
     /\ HasStyle(char_html, "background-color"))
    => /\ IF IsRecognized(char.fg)
          THEN StyleVal(char_html, "color") = StyleVal(char_html, "background-color")
          ELSE /\ StyleVal(char_html, "color") = "#d3d7cf"
               /\ StyleVal(char_html, "background-color") = "#000000"
       /\ char.fg = Red => StyleVal(char_html, "color") = "#cc0000"
       /\ char.fg = Int_(255) => StyleVal(char_html, "color") = "#0000ff"
       /\ char.fg = Int_(16711680) => StyleVal(char_html, "color") = "#ff0000"

C6_Witness ==
    /\ char_html # NoValue
    /\ char.fg = Str("brightbrown") /\ char.bg = Str("brightbrown")
    /\ StyleVal(char_html, "color") # StyleVal(char_html, "background-color")

\* C8 as stated: the exit status is non-zero exactly when the input-file
\* argument is missing.
C8_NonZeroIffNoInputArgument ==
    pc = "exited" => (exit_status # 0 <=> Len(argv) < 1)

\* C8 amended: the exit status is non-zero exactly when the input-file
\* argument is missing or reading the input or writing the output raised an
\* OSError; an exception of the playback is caught and leaves the status 0.
C8_NonZeroIffUsageOrIOError ==
    pc = "exited" =>
        /\ exit_status # 0 <=> (Len(argv) < 1 \/ raised = "OSError")
        /\ exit_status \in {0, 1}
        /\ (Len(argv) < 1 => stdout # <<>> /\ data = <<>>)

C8_Witness ==
    /\ pc = "exited" /\ Len(argv) >= 1
    /\ raised = "OSError" /\ exit_status = 1
    /\ written.done = FALSE


(***************************************************************************)
(* claude-log-server.py.  Flask serves each request on a thread of its own *)
(* (app.run, threaded by default), so the steps of convert_log_to_html     *)
(* that touch the log directory or html_cache interleave with one another  *)
(* and with whatever writes the directory.  A step here is one such access.*)
(*                                                                         *)
(* A file has the mtime of the clock tick of its last write; log.ver       *)
(* numbers the contents the log has had, and the HTML values carry the     *)
(* version they were made from (src).                                      *)
(***************************************************************************)
NThreads == 2       \* request threads of the server under concurrent load
NWorkers == 1       \* request threads of the server answering one at a time
MaxTime  == 1       \* ticks of the file system's clock
MaxVer   == 2       \* writes of the log


\* The names requested: a log, and two names view_log refuses.
LogName   == "s_20250101_000000.log"
FileNames == {LogName, "../s.log", "s.txt"}
Unsafe(filename)      == filename \in {"../s.log"}      \* '/' or '..' in it
EndsWithLog(filename) == filename \in {LogName, "../s.log"}

Body(k, v)      == [kind |-> k, src |-> v]
NoBody          == Body("none", 0)
Response(st, b) == [status |-> st, body |-> b]
NoResponse      == Response(0, NoBody)

IdleReq ==
    [pc |-> "idle", filename |-> "", html_mtime |-> 0, mtime |-> 0,
     result |-> "none", stdout |-> NoBody, response |-> NoResponse]

\* cache_key = f"{logfile}:{mtime}"
CacheKey(logfile, mtime) == <<logfile, mtime>>

InitDirectory ==
    /\ now = 0
    /\ log \in {[exists |-> FALSE, mtime |-> 0, ver |-> 0],
                [exists |-> TRUE, mtime |-> 0, ver |-> 1]}
    /\ pre = [exists |-> FALSE, mtime |-> 0, src |-> 0]
    /\ html_cache = <<>>
    /\ CharIdle /\ RowIdle /\ CleanIdle

InitServer    == InitDirectory /\ req = [t \in 1..NThreads |-> IdleReq]
InitServerSeq == InitDirectory /\ req = [t \in 1..NWorkers |-> IdleReq]

\* ---- the log directory
Tick ==
    /\ now < MaxTime
    /\ now' = now + 1
    /\ UNCHANGED <<log, pre, html_cache, req, charVars, rowVars, cleanVars>>

\* The session's recorder creates the log or appends to it.
LogWrite ==
    /\ log.ver < MaxVer
    /\ log' = [exists |-> TRUE, mtime |-> now, ver |-> log.ver + 1]
    /\ UNCHANGED <<now, pre, html_cache, req, charVars, rowVars, cleanVars>>

LogDelete ==
    /\ log.exists
    /\ log' = [log EXCEPT !.exists = FALSE]
    /\ UNCHANGED <<now, pre, html_cache, req, charVars, rowVars, cleanVars>>

\* The scrollback capture writes the pre-converted .html from the log as it is.
HtmlWrite ==
    /\ log.exists
    /\ pre' = [exists |-> TRUE, mtime |-> now, src |-> log.ver]
    /\ UNCHANGED <<now, log, html_cache, req, charVars, rowVars, cleanVars>>

\* ---- a request
Goto(t, label) == req' = [req EXCEPT ![t].pc = label]

\* convert_log_to_html is left and its locals with it; `result` stays, as
\* the record of how the request's render ended.
Leaves(t, how, resp) ==
    req' = [req EXCEPT ![t] = [IdleReq EXCEPT !.pc = "done", !.result = how,
                                              !.response = resp]]

\* view_log's answer to what convert_log_to_html returned (lines 241-246):
\* None is abort(404), a string is a 200 response.
Returns(t, body) ==
    Leaves(t, req[t].result,
           IF body = NoBody THEN Response(404, NoBody) ELSE Response(200, body))

\* An exception nobody catches: Flask answers 500.
Crashes(t) == Leaves(t, req[t].result, Response(500, NoBody))

\* Lines 232-241: the name is checked, then convert_log_to_html is called.
ViewLog(t) ==
    /\ req[t].pc = "idle"
    /\ \E filename \in FileNames :
          IF Unsafe(filename) \/ ~EndsWithLog(filename)
          THEN Leaves(t, "none", Response(400, NoBody))
          ELSE req' = [req EXCEPT ![t].pc = "L82", ![t].filename = filename]
    /\ UNCHANGED <<now, log, pre, html_cache, charVars, rowVars, cleanVars>>

\* Lines 82-83.
CheckLogExists(t) ==
    /\ req[t].pc = "L82"
    /\ IF log.exists THEN Goto(t, "L87") ELSE Returns(t, NoBody)
    /\ UNCHANGED <<now, log, pre, html_cache, charVars, rowVars, cleanVars>>

\* Lines 87-88.
StatHtml(t) ==
    /\ req[t].pc = "L87"
    /\ IF pre.exists
       THEN req' = [req EXCEPT ![t].pc = "L89", ![t].html_mtime = pre.mtime]
       ELSE Goto(t, "L94")
    /\ UNCHANGED <<now, log, pre, html_cache, charVars, rowVars, cleanVars>>

\* Lines 89-90: stat of the log (FileNotFoundError once it is gone) and the
\* comparison of the two mtimes.
CompareMtimes(t) ==
    /\ req[t].pc = "L89"
    /\ IF ~log.exists THEN Crashes(t)
       ELSE IF req[t].html_mtime >= log.mtime THEN Goto(t, "L91")
       ELSE Goto(t, "L94")
    /\ UNCHANGED <<now, log, pre, html_cache, charVars, rowVars, cleanVars>>

\* Line 91.
ReadHtml(t) ==
    /\ req[t].pc = "L91"
    /\ Returns(t, Body("pre", pre.src))
    /\ UNCHANGED <<now, log, pre, html_cache, charVars, rowVars, cleanVars>>

\* Lines 94-95.
StatLog(t) ==
    /\ req[t].pc = "L94"
    /\ IF ~log.exists THEN Crashes(t)
       ELSE req' = [req EXCEPT ![t].pc = "L97", ![t].mtime = log.mtime]
    /\ UNCHANGED <<now, log, pre, html_cache, charVars, rowVars, cleanVars>>

\* Lines 97-98.
CheckCache(t) ==
    /\ req[t].pc = "L97"
    /\ LET cache_key == CacheKey(req[t].filename, req[t].mtime)
       IN  IF cache_key \in DOMAIN html_cache
           THEN Returns(t, html_cache[cache_key])
           ELSE Goto(t, "L102")
    /\ UNCHANGED <<now, log, pre, html_cache, charVars, rowVars, cleanVars>>

ErrorPage == Body("error", 0)

\* Lines 102-107 and 112-113: subprocess.run starts the clean script, or
\* raises at once (OSError) and the error page is returned.
StartRender(t) ==
    /\ req[t].pc = "L102"
    /\ \/ Goto(t, "run")
       \/ Leaves(t, "raised", Response(200, ErrorPage))
    /\ UNCHANGED <<now, log, pre, html_cache, charVars, rowVars, cleanVars>>

\* The clean script runs: it reads the log as it is now and prints the
\* document (status 0), or fails (status 1: the log is gone, pyte is not
\* installed, the output cannot be written), or runs into the timeout of
\* line 106 and subprocess.run raises TimeoutExpired.
RunCleanScript(t) ==
    /\ req[t].pc = "run"
    /\ \/ /\ log.exists
          /\ req' = [req EXCEPT ![t].pc = "L108", ![t].result = "rc0",
                                ![t].stdout = Body("render", log.ver)]
       \/ req' = [req EXCEPT ![t].pc = "L108", ![t].result = "nonzero"]
       \/ Leaves(t, "raised", Response(200, ErrorPage))
    /\ UNCHANGED <<now, log, pre, html_cache, charVars, rowVars, cleanVars>>

\* A store under the key of the log's mtime as it is after the render.
StoreKeyRestat(t) == CacheKey(req[t].filename, log.mtime)

\* Lines 94-95 and 110: the key the output is stored under.
StoreKey(t) == CacheKey(req[t].filename, req[t].mtime)

\* Lines 108-111 and 115.
StoreAndReturn(t) ==
    /\ req[t].pc = "L108"
    /\ IF req[t].result = "rc0"
       THEN /\ html_cache' = (StoreKey(t) :> req[t].stdout) @@ html_cache
            /\ Returns(t, req[t].stdout)
       ELSE /\ html_cache' = html_cache
            /\ Returns(t, NoBody)
    /\ UNCHANGED <<now, log, pre, charVars, rowVars, cleanVars>>

\* The response is sent; the thread takes the next request.
Finish(t) ==
    /\ req[t].pc = "done"
    /\ req' = [req EXCEPT ![t] = IdleReq]
    /\ UNCHANGED <<now, log, pre, html_cache, charVars, rowVars, cleanVars>>

NextServer ==
    \/ Tick
    \/ LogWrite
    \/ LogDelete
    \/ HtmlWrite
    \/ \E t \in DOMAIN req : ViewLog(t)
    \/ \E t \in DOMAIN req : CheckLogExists(t)
    \/ \E t \in DOMAIN req : StatHtml(t)
    \/ \E t \in DOMAIN req : CompareMtimes(t)
    \/ \E t \in DOMAIN req : ReadHtml(t)
    \/ \E t \in DOMAIN req : StatLog(t)
    \/ \E t \in DOMAIN req : CheckCache(t)
    \/ \E t \in DOMAIN req : StartRender(t)
    \/ \E t \in DOMAIN req : RunCleanScript(t)
    \/ \E t \in DOMAIN req : StoreAndReturn(t)
    \/ \E t \in DOMAIN req : Finish(t)
SpecServer    == InitServer /\ [][NextServer]_vars
SpecServerSeq == InitServerSeq /\ [][NextServer]_vars

(***************************************************************************)
(* Properties of claude-log-server.py.                                     *)
(***************************************************************************)
\* C1: a response never carries HTML, read from the pre-converted file or
\* taken from html_cache, made from a version of the log older than the one
\* the log holds at the moment the response is returned.
C1_NeverServesStaleHtml ==
    [][\A t \in DOMAIN req :
          (/\ req[t].pc # "done" /\ req'[t].pc = "done"
           /\ req'[t].response.status = 200
           /\ req'[t].response.body.kind \in {"pre", "render"}
           /\ log.exists)
          => req'[t].response.body.src = log.ver]_vars

\* C7: when the render made for an existing log fails (non-zero status,
\* timeout, exception), the caller of view_log receives the page with the
\* error text, never a missing-page or crash response.
C7_RenderFailureGivesErrorPage ==
    \A t \in DOMAIN req :
        (req[t].pc = "done" /\ req[t].result \in {"nonzero", "raised"} /\ log.exists)
        => req[t].response = Response(200, ErrorPage)

\* C9: at most one render is in progress at any time for a cache key, and
\* at most one thread is about to store under it.
C9_OneRenderPerKey ==
    \A t1, t2 \in DOMAIN req :
        (/\ t1 # t2
         /\ req[t1].pc \in {"run", "L108"}
         /\ req[t2].pc \in {"run", "L108"})
        => StoreKey(t1) # StoreKey(t2)

\* C10: html_cache changes only by a request whose render exited with
\* status 0 storing that render's output under the key of the file name and
\* the mtime it read before the render; every other step (a missing log, a
\* pre-converted hit, a cache hit, a non-zero exit, an exception) leaves it
\* as it is, and no entry is ever removed.
C10_CacheChangesOnlyBySuccessfulRender ==
    [][\/ html_cache' = html_cache
       \/ \E t \in DOMAIN req :
             /\ req[t].pc = "L108" /\ req[t].result = "rc0"
             /\ req[t].stdout.kind = "render"
             /\ req'[t].response = Response(200, req[t].stdout)
             /\ LET key == CacheKey(req[t].filename, req[t].mtime)
                IN  html_cache' = [k \in DOMAIN html_cache \cup {key} |->
                                      IF k = key THEN req[t].stdout
                                      ELSE html_cache[k]]]_vars

\* A failed render has answered 404 and left no entry for the log as it is,
\* beside the entry an earlier render stored.
C10_Witness ==
    /\ html_cache # <<>>
    /\ log.exists
    /\ CacheKey(LogName, log.mtime) \notin DOMAIN html_cache
    /\ \E t \in DOMAIN req :
          /\ req[t].pc = "done" /\ req[t].result = "nonzero"
          /\ req[t].response.status = 404

=============================================================================
